---- MODULE Spec2Model ----
(***************************************************************************)
(* Model of the Call Router of bun-mock-extended (src/src/index.ts):       *)
(* calledWithFn builds a mock function `fn` with a calledWith extension;   *)
(* calledWith registers a Binding (pattern, delegate) on calledWithStack   *)
(* and installs a dispatcher on `fn`; the dispatcher is checkCalledWith.   *)
(***************************************************************************)
EXTENDS Integers, Sequences, FiniteSets

\* ------------------------------------------------------------------------
\* Bounds of the model
\* ------------------------------------------------------------------------
MaxBindings == 2
MaxCalls == 2
MaxLifecycleOps == 1
MaxNodes == 3
MaxTreeBindings == 2
MaxTreeCalls == 2

\* ------------------------------------------------------------------------
\* JavaScript values
\* ------------------------------------------------------------------------
\* A primitive value: typeof and an identifier of the value within its type.
Prim(t, i) == [type |-> t, id |-> i]

Undefined == Prim("undefined", 0)
Num1 == Prim("number", 1)
Num3 == Prim("number", 3)
Num4 == Prim("number", 4)
Num5 == Prim("number", 5)
Num7 == Prim("number", 7)
NaN == Prim("number", -1)
StrX == Prim("string", 1)
StrY == Prim("string", 2)
CustomRet == Prim("string", 10)
NotMocked == Prim("error", 1)

\* typeof v
TypeOf(v) == v.type

\* a === b on the values of the model: NaN is not equal to itself, objects
\* are equal by identity.
StrictEquals(a, b) == a = b /\ a # NaN /\ b # NaN

\* Objects that can stand in a pattern. `matcher` is `instanceof Matcher`,
\* `asym` names the predicate behind an asymmetricMatch function ("none"
\* when the object has no such function), `tag` is the Symbol.toStringTag
\* of the object's prototype as a sequence of characters.
Obj(i, m, a, t) == [type |-> "object", id |-> i, matcher |-> m, asym |-> a, tag |-> t]

TagExpectAnything == <<"E", "x", "p", "e", "c", "t", "A", "n", "y", "t", "h", "i", "n", "g">>
TagExpectAny == <<"E", "x", "p", "e", "c", "t", "A", "n", "y">>
TagExpect == <<"E", "x", "p", "e", "c", "t">>
TagExport == <<"E", "x", "p", "o", "r", "t">>

\* new Matcher(v => typeof v === "number"), new Matcher(v => typeof v === "string")
IsNumberMatcher == Obj(1, TRUE, "isNumber", <<>>)
IsStringMatcher == Obj(2, TRUE, "isString", <<>>)
\* expect.anything(), expect.any(Number) of bun:test
BunAnything == Obj(3, FALSE, "anything", TagExpectAnything)
BunAny == Obj(4, FALSE, "isNumber", TagExpectAny)
\* { asymmetricMatch: v => typeof v === "string" } with a prototype tagged "Export"
DuckMatcher == Obj(5, FALSE, "isString", TagExport)

\* new Matcher(v => v === undefined)
IsUndefinedMatcher == Obj(6, TRUE, "isUndefined", <<>>)

\* The predicate behind an asymmetricMatch function, applied to a value.
asymmetricMatch(pred, actual) ==
    CASE pred = "isNumber" -> TypeOf(actual) = "number"
      [] pred = "isString" -> TypeOf(actual) = "string"
      [] pred = "anything" -> TypeOf(actual) # "undefined"
      [] pred = "isUndefined" -> TypeOf(actual) = "undefined"
      [] OTHER -> FALSE

\* ------------------------------------------------------------------------
\* Inputs
\* ------------------------------------------------------------------------
Patterns ==
    { <<Num5, StrX>>, <<IsNumberMatcher>>, <<Num5>>,
      <<BunAnything>>, <<Num5, BunAny>> }

ArgLists ==
    { <<Num5, StrX>>, <<Num5, StrY>>, <<StrX, Num5>>, <<Num7, StrX, Num5>> }

\* The inputs of the runs with lifecycle operations.
LifecyclePatterns == { <<Num5, StrX>>, <<IsNumberMatcher>> }

LifecycleArgLists == { <<Num5, StrX>>, <<StrX, Num5>> }

\* The inputs of the runs with empty patterns and with patterns longer than
\* the argument list.
EdgePatterns ==
    { <<>>, <<Num5, Undefined>>, <<Num5, IsUndefinedMatcher>>, <<Num5, StrX>> }

EdgeArgLists == { <<>>, <<Num5>>, <<Num5, StrX>> }

\* The inputs of the runs on a Proxy Tree: one property key (the paths are
\* root.a, root.a.a, ...), one pattern, one argument list, and one configured return value per node (3 for the
\* second node, 4 for the third).
TreeKeys == {"a"}

TreePatterns == { <<Num1>> }

TreeArgLists == { <<Num1>> }

TreeReturnValueFor(n) == Prim("number", n + 1)

\* The inputs of the runs with an object that has an asymmetricMatch function
\* and is not a Matcher: alone, after a literal, and (expect.any(Number))
\* with a prototype tag that begins with "Expect".
DuckPatterns == { <<DuckMatcher>>, <<Num5, DuckMatcher>>, <<BunAny>> }

DuckArgLists == { <<StrX>>, <<DuckMatcher>>, <<Num5, StrX>> }

\* The value the d-th delegate is configured to return: one value per delegate.
ReturnValueFor(d) == Prim("string", 10 + d)

Fallbacks == {"none", "first", "throws"}

\* ------------------------------------------------------------------------
\* The mock function primitive (jest.fn of bun:test)
\* ------------------------------------------------------------------------
Returns(v) == [kind |-> "return", val |-> v]
Throws(e) == [kind |-> "throw", val |-> e]

\* actualArgs[i] with JavaScript's 0-based i: undefined past the end.
ArgAt(actualArgs, i) == IF i + 1 <= Len(actualArgs) THEN actualArgs[i + 1] ELSE Undefined

\* fallbackMockImplementation(...actualArgs) for the fallbacks of the model:
\* "first" is (...a) => a[0], "throws" is () => { throw new Error("not mocked") }.
CallFallback(fb, actualArgs) ==
    CASE fb = "first" -> Returns(ArgAt(actualArgs, 0))
      [] fb = "throws" -> Throws(NotMocked)
      [] OTHER -> Returns(Undefined)

\* The outcome of calling a mock function whose installed implementation is
\* impl: no implementation returns undefined, mockReturnValue(v) returns v.
CallMockImpl(impl, fb, actualArgs) ==
    CASE impl.kind = "returnValue" -> Returns(impl.val)
      [] impl.kind = "fallback" -> CallFallback(fb, actualArgs)
      [] impl.kind = "custom" -> Returns(CustomRet)
      [] OTHER -> Returns(Undefined)

NoImpl == [kind |-> "none", val |-> Undefined]
FallbackImpl == [kind |-> "fallback", val |-> Undefined]
DispatcherImpl == [kind |-> "dispatcher", val |-> Undefined]
CustomImpl == [kind |-> "custom", val |-> Undefined]
ReturnValueImpl(v) == [kind |-> "returnValue", val |-> v]

\* Mutant: a mock function made without a base implementation.
JestFnBare(fb) == NoImpl

\* jest.fn(fallbackMockImplementation): the implementation a new mock starts with.
JestFn(fb) == IF fb = "none" THEN NoImpl ELSE FallbackImpl

\* A new mock function: its installed implementation and its call history.
NewMock(impl) == [impl |-> impl, calls |-> <<>>]

\* ------------------------------------------------------------------------
\* src/src/index.ts
\* ------------------------------------------------------------------------
\* tag.startsWith(prefix)
StartsWith(tag, prefix) ==
    /\ Len(tag) >= Len(prefix)
    /\ SubSeq(tag, 1, Len(prefix)) = prefix

\* obj instanceof Matcher
isMatcherInstance(obj) == TypeOf(obj) = "object" /\ obj.matcher

\* Mutant: no object counts as an asymmetric matcher by its shape.
isJestAsymmetricMatcherNever(obj) == FALSE

isJestAsymmetricMatcher(obj) == TypeOf(obj) = "object" /\ obj.asym # "none"

isBunBuiltInMatcher(obj) ==
    IF TypeOf(obj) # "object"
    THEN FALSE
    ELSE StartsWith(obj.tag, TagExpect)

\* Mutant: only the first argument is validated.
validateFirstArgOnly(args) == Len(args) > 0 /\ isBunBuiltInMatcher(args[1])

\* TRUE when validateCalledWithArgs(args) throws.
validateCalledWithArgs(args) ==
    LET bunMatchers == SelectSeq(args, isBunBuiltInMatcher)
    IN Len(bunMatchers) > 0

UnsupportedMatcher == Prim("error", 2)

\* The error of mockClear and mockReset on a deep mock.
LifecycleRestrictionError == Prim("error", 3)

\* Mutant: every entry is compared with ===, Matchers included.
MatchesEntryStrictOnly(matcher, actual) == StrictEquals(actual, matcher)

\* The callback of instance.args.every in checkCalledWith, for one entry.
MatchesEntry(matcher, actual) ==
    IF isMatcherInstance(matcher)
    THEN asymmetricMatch(matcher.asym, actual)
    ELSE IF isJestAsymmetricMatcher(matcher)
         THEN asymmetricMatch(matcher.asym, actual)
         ELSE StrictEquals(actual, matcher)

\* Mutant: args.some instead of args.every.
MatchesSome(instance, actualArgs) ==
    \E i \in 1..Len(instance.args) :
        MatchesEntry(instance.args[i], ArgAt(actualArgs, i - 1))

\* Mutant: the argument count has to equal the pattern's length.
MatchesSameLength(instance, actualArgs) ==
    /\ Len(instance.args) = Len(actualArgs)
    /\ \A i \in 1..Len(instance.args) :
           MatchesEntry(instance.args[i], ArgAt(actualArgs, i - 1))

\* Mutant: every() is false on an empty pattern.
MatchesNonEmpty(instance, actualArgs) ==
    /\ Len(instance.args) > 0
    /\ \A i \in 1..Len(instance.args) :
           MatchesEntry(instance.args[i], ArgAt(actualArgs, i - 1))

\* Mutant: a pattern entry past the end of the arguments never matches.
MatchesWithinLength(instance, actualArgs) ==
    \A i \in 1..Len(instance.args) :
        /\ i <= Len(actualArgs)
        /\ MatchesEntry(instance.args[i], ArgAt(actualArgs, i - 1))

\* instance.args.every((matcher, i) => ...)
MatchesInstance(instance, actualArgs) ==
    \A i \in 1..Len(instance.args) :
        MatchesEntry(instance.args[i], ArgAt(actualArgs, i - 1))

\* calledWithStack.find(...): the index of the first matching instance, 0 for none.
FindInstance(stack, actualArgs) ==
    LET hits == {i \in 1..Len(stack) : MatchesInstance(stack[i], actualArgs)}
    IN IF hits = {} THEN 0 ELSE CHOOSE i \in hits : \A j \in hits : i <= j

\* Mutant: every matching instance is called (filter instead of find).
CalledAllMatching(stack, actualArgs) ==
    {stack[i].calledWithFn : i \in {j \in 1..Len(stack) : MatchesInstance(stack[j], actualArgs)}}

\* The delegates that checkCalledWith calls: the one of the found instance.
CalledInstances(stack, actualArgs) ==
    LET i == FindInstance(stack, actualArgs)
    IN IF i = 0 THEN {} ELSE {stack[i].calledWithFn}

\* Mutant: the found instance is taken off the stack.
StackWithoutFound(stack, actualArgs) ==
    LET i == FindInstance(stack, actualArgs)
    IN IF i = 0 THEN stack ELSE SubSeq(stack, 1, i - 1) \o SubSeq(stack, i + 1, Len(stack))

\* The stack after calledWithStack.find(...): find only reads it.
StackAfterFind(stack, actualArgs) == stack

\* Mutant: no fallback on a miss.
FallThroughUndefined(fb, actualArgs) == Returns(Undefined)

\* fallbackMockImplementation && fallbackMockImplementation(...actualArgs)
FallThrough(fb, actualArgs) ==
    IF fb = "none" THEN Returns(Undefined) ELSE CallFallback(fb, actualArgs)

\* checkCalledWith(calledWithStack, actualArgs, fallbackMockImplementation) over
\* the delegates ms: the delegate whose result is returned (0 for none) and the
\* outcome of the call.
checkCalledWith(stack, ms, actualArgs, fb) ==
    LET i == FindInstance(stack, actualArgs)
    IN IF i # 0
       THEN [delegate |-> stack[i].calledWithFn,
             outcome |-> CallMockImpl(ms[stack[i].calledWithFn].impl, fb, actualArgs)]
       ELSE [delegate |-> 0, outcome |-> FallThrough(fb, actualArgs)]

\* Mutant: the item is pushed to the end of the stack.
Push(stack, item) == stack \o <<item>>

\* Mutant: an item with the same pattern replaces the one on the stack.
UnshiftDeduped(stack, item) ==
    <<item>> \o SelectSeq(stack, LAMBDA old : old.args # item.args)

\* calledWithStack.unshift(item)
Unshift(stack, item) == <<item>> \o stack

\* Mutant: the dispatcher is installed by every registration.
AlwaysNeedsDispatcher(mockImplementation) == TRUE

\* Mutant: the comparison with the fallback is left out.
NeedsDispatcherWhenAbsent(mockImplementation) == mockImplementation.kind = "none"

\* !mockImplementation || mockImplementation === fallbackMockImplementation
NeedsDispatcher(mockImplementation) ==
    mockImplementation.kind = "none" \/ mockImplementation.kind = "fallback"

\* Mutant: the stack is kept when the dispatcher is installed.
KeptStack(stack) == stack

\* calledWithStack = [] when the dispatcher is installed
FreshStack(stack) == <<>>

\* Mutant: one delegate shared by all registrations.
SharedDelegateId(ms) == 1

\* const calledWithFn = jest.fn(...): the identity of the new delegate.
NewDelegateId(ms) == Len(ms) + 1

VARIABLES
    fallbackMockImplementation, \* the fallback given to calledWithFn
    fnImpl,                     \* fn.getMockImplementation()
    fnCalls,                    \* fn.mock.calls
    calledWithStack,            \* the Binding Stack
    mocks,                      \* the delegates made by calledWith, by identity
    installs,                   \* how often the dispatcher has been installed on fn
    beforeClear,                \* the delegates made before the latest mockClear or mockReset of fn
    beforeReset,                \* the delegates made before the latest mockReset of fn
    lifecycleOps,               \* how many mockClear and mockReset calls fn has had
    last,                       \* the latest operation on fn and its outcome
    treeOpts,                   \* the options a Proxy Tree was built with
    tree,                       \* the nodes of the Proxy Tree, by identity; the root is node 1
    treeLast                    \* the latest operation on the Proxy Tree and its outcome

routerVars ==
    <<fallbackMockImplementation, fnImpl, fnCalls, calledWithStack, mocks, installs,
      beforeClear, beforeReset, lifecycleOps, last>>

treeVars == <<treeOpts, tree, treeLast>>

vars == <<routerVars, treeVars>>

Op(op, args, outcome, delegate) ==
    [op |-> op, args |-> args, outcome |-> outcome, delegate |-> delegate]

\* An operation on the node `node` of the Proxy Tree: `key` is the property
\* read, `result` the node a read returned or the delegate a call reached.
TreeOp(op, node, key, args, outcome, result) ==
    [op |-> op, node |-> node, key |-> key, args |-> args, outcome |-> outcome,
     result |-> result]

\* const fn = jest.fn(fallbackMockImplementation); let calledWithStack = []
Init ==
    /\ fallbackMockImplementation \in Fallbacks
    /\ fnImpl = JestFn(fallbackMockImplementation)
    /\ fnCalls = <<>>
    /\ calledWithStack = <<>>
    /\ mocks = <<>>
    /\ installs = 0
    /\ beforeClear = {}
    /\ beforeReset = {}
    /\ lifecycleOps = 0
    /\ last = Op("calledWithFn", <<>>, Returns(Undefined), 0)
    /\ treeOpts = [funcPropSupport |-> FALSE, fallbackMockImplementation |-> "none"]
    /\ tree = <<>>
    /\ treeLast = TreeOp("none", 0, "none", <<>>, Returns(Undefined), 0)

\* fn.calledWith(...args)
CalledWith(args) ==
    /\ Len(mocks) < MaxBindings
    /\ UNCHANGED treeVars
    /\ IF validateCalledWithArgs(args)
       THEN /\ last' = Op("calledWith", args, Throws(UnsupportedMatcher), 0)
            /\ UNCHANGED <<fallbackMockImplementation, fnImpl, fnCalls, calledWithStack,
                           mocks, installs, beforeClear, beforeReset, lifecycleOps>>
       ELSE LET id == NewDelegateId(mocks)
                install == NeedsDispatcher(fnImpl)
            IN /\ mocks' = IF id \in DOMAIN mocks THEN mocks
                           ELSE Append(mocks, NewMock(JestFn(fallbackMockImplementation)))
               /\ fnImpl' = IF install THEN DispatcherImpl ELSE fnImpl
               /\ installs' = IF install THEN installs + 1 ELSE installs
               /\ calledWithStack' =
                      Unshift(IF install THEN FreshStack(calledWithStack) ELSE calledWithStack,
                              [args |-> args, calledWithFn |-> id])
               /\ last' = Op("calledWith", args, Returns(Undefined), id)
               /\ UNCHANGED <<fallbackMockImplementation, fnCalls, beforeClear, beforeReset,
                            lifecycleOps>>

\* fn(...actualArgs)
Invoke(actualArgs) ==
    /\ Len(fnCalls) < MaxCalls
    /\ fnCalls' = Append(fnCalls, actualArgs)
    /\ LET dispatch == fnImpl.kind = "dispatcher"
           r == IF dispatch
                THEN checkCalledWith(calledWithStack, mocks, actualArgs,
                                     fallbackMockImplementation)
                ELSE [delegate |-> 0,
                      outcome |-> CallMockImpl(fnImpl, fallbackMockImplementation, actualArgs)]
           called == IF dispatch THEN CalledInstances(calledWithStack, actualArgs) ELSE {}
       IN /\ mocks' = [d \in DOMAIN mocks |->
                          IF d \in called
                          THEN [mocks[d] EXCEPT !.calls = Append(@, actualArgs)]
                          ELSE mocks[d]]
          /\ calledWithStack' = IF dispatch
                                THEN StackAfterFind(calledWithStack, actualArgs)
                                ELSE calledWithStack
          /\ last' = Op("call", actualArgs, r.outcome, r.delegate)
    /\ UNCHANGED <<fallbackMockImplementation, fnImpl, installs,
                   beforeClear, beforeReset, lifecycleOps>>
    /\ UNCHANGED treeVars

\* delegate.mockReturnValue(v) on a delegate returned by calledWith
MockReturnValue(d, v) ==
    /\ d \in DOMAIN mocks
    /\ mocks[d].impl # ReturnValueImpl(v)
    /\ mocks' = [mocks EXCEPT ![d].impl = ReturnValueImpl(v)]
    /\ UNCHANGED <<fallbackMockImplementation, fnImpl, fnCalls, calledWithStack, installs,
                   beforeClear, beforeReset, lifecycleOps, last>>
    /\ UNCHANGED treeVars

\* fn.mockReset(): the history is cleared and the implementation removed.
MockReset ==
    /\ lifecycleOps < MaxLifecycleOps
    /\ lifecycleOps' = lifecycleOps + 1
    /\ fnImpl' = NoImpl
    /\ fnCalls' = <<>>
    /\ beforeClear' = DOMAIN mocks
    /\ beforeReset' = DOMAIN mocks
    /\ last' = Op("mockReset", <<>>, Returns(Undefined), 0)
    /\ UNCHANGED <<fallbackMockImplementation, calledWithStack, mocks, installs>>
    /\ UNCHANGED treeVars

\* fn.mockClear(): the history is cleared, the implementation stays.
MockClear ==
    /\ lifecycleOps < MaxLifecycleOps
    /\ lifecycleOps' = lifecycleOps + 1
    /\ fnCalls' = <<>>
    /\ beforeClear' = DOMAIN mocks
    /\ last' = Op("mockClear", <<>>, Returns(Undefined), 0)
    /\ UNCHANGED <<fallbackMockImplementation, fnImpl, calledWithStack, mocks, installs,
                   beforeReset>>
    /\ UNCHANGED treeVars

\* fn.mockImplementation(custom): an implementation of the caller's is installed.
MockImplementation ==
    /\ lifecycleOps < MaxLifecycleOps
    /\ lifecycleOps' = lifecycleOps + 1
    /\ fnImpl' = CustomImpl
    /\ last' = Op("mockImplementation", <<>>, Returns(Undefined), 0)
    /\ UNCHANGED <<fallbackMockImplementation, fnCalls, calledWithStack, mocks, installs,
                   beforeClear, beforeReset>>
    /\ UNCHANGED treeVars

Register == \E args \in Patterns : CalledWith(args)
Call == \E actualArgs \in ArgLists : Invoke(actualArgs)
Configure == \E d \in 1..MaxBindings : MockReturnValue(d, ReturnValueFor(d))

Next == Register \/ Call \/ Configure

Spec == Init /\ [][Next]_vars

\* The router with the lifecycle operations of the mock function primitive.
RegisterLifecycle == \E args \in LifecyclePatterns : CalledWith(args)
CallLifecycle == \E actualArgs \in LifecycleArgLists : Invoke(actualArgs)

NextLifecycle == RegisterLifecycle \/ CallLifecycle \/ Configure \/ MockReset \/ MockClear

SpecLifecycle == Init /\ [][NextLifecycle]_vars

\* The router with the implementation of fn removed or replaced by the caller.
NextImplementation ==
    RegisterLifecycle \/ CallLifecycle \/ Configure \/ MockReset \/ MockImplementation

SpecImplementation == Init /\ [][NextImplementation]_vars

\* The router with empty patterns and short argument lists.
RegisterEdge == \E args \in EdgePatterns : CalledWith(args)
CallEdge == \E actualArgs \in EdgeArgLists : Invoke(actualArgs)

NextEdge == RegisterEdge \/ CallEdge \/ Configure

SpecEdge == Init /\ [][NextEdge]_vars

\* The router with patterns that hold asymmetric matchers by shape.
RegisterDuck == \E args \in DuckPatterns : CalledWith(args)
CallDuck == \E actualArgs \in DuckArgLists : Invoke(actualArgs)

NextDuck == RegisterDuck \/ CallDuck \/ Configure

SpecDuck == Init /\ [][NextDuck]_vars

\* ------------------------------------------------------------------------
\* The Proxy Tree (mockDeep)
\* ------------------------------------------------------------------------
\* The Call Router of a node: what calledWithFn keeps for one fn.
NewRouter(fb) ==
    [fnImpl |-> JestFn(fb), calledWithStack |-> <<>>, mocks |-> <<>>, fnCalls |-> <<>>]

\* fn.calledWith(...args) on the router r, for arguments that pass validation.
RouterCalledWith(r, args, fb) ==
    LET id == NewDelegateId(r.mocks)
        install == NeedsDispatcher(r.fnImpl)
    IN [fnImpl |-> IF install THEN DispatcherImpl ELSE r.fnImpl,
        calledWithStack |->
            Unshift(IF install THEN FreshStack(r.calledWithStack) ELSE r.calledWithStack,
                    [args |-> args, calledWithFn |-> id]),
        mocks |-> IF id \in DOMAIN r.mocks THEN r.mocks
                  ELSE Append(r.mocks, NewMock(JestFn(fb))),
        fnCalls |-> r.fnCalls]

\* The delegate reached and the outcome of fn(...actualArgs) on the router r.
RouterResult(r, actualArgs, fb) ==
    IF r.fnImpl.kind = "dispatcher"
    THEN checkCalledWith(r.calledWithStack, r.mocks, actualArgs, fb)
    ELSE [delegate |-> 0, outcome |-> CallMockImpl(r.fnImpl, fb, actualArgs)]

\* The router r after fn(...actualArgs).
RouterInvoke(r, actualArgs, fb) ==
    LET dispatch == r.fnImpl.kind = "dispatcher"
        called == IF dispatch THEN CalledInstances(r.calledWithStack, actualArgs) ELSE {}
    IN [fnImpl |-> r.fnImpl,
        calledWithStack |-> IF dispatch THEN StackAfterFind(r.calledWithStack, actualArgs)
                            ELSE r.calledWithStack,
        mocks |-> [d \in DOMAIN r.mocks |->
                      IF d \in called
                      THEN [r.mocks[d] EXCEPT !.calls = Append(@, actualArgs)]
                      ELSE r.mocks[d]],
        fnCalls |-> Append(r.fnCalls, actualArgs)]

\* A node made by the first read of `key` on the node `parent`: no child is
\* materialized, its router has the fallback of the tree's options.
NewNode(parent, key, opts) ==
    [parent |-> parent, key |-> key, children |-> [k \in TreeKeys |-> 0],
     router |-> NewRouter(opts.fallbackMockImplementation)]

\* Mutant: the cache of materialized children is never hit.
TreeLookupMiss(node, key) == 0

\* The cached child of the node under the key, 0 when none was materialized.
TreeLookup(node, key) == node.children[key]

\* Mutant: the routers of the tree are one shared router.
SetRouterShared(t, n, r) == [m \in DOMAIN t |-> [t[m] EXCEPT !.router = r]]

\* The tree with r as the router of the node n.
SetRouter(t, n, r) == [t EXCEPT ![n].router = r]

\* Mutant: the bindings of the node's children are dropped before the error.
TreePartlyReset(t, n) ==
    [m \in DOMAIN t |->
        IF t[m].parent = n THEN [t[m] EXCEPT !.router = NewRouter("none")] ELSE t[m]]

\* The tree after mockClear or mockReset was called on its node n.
TreeAfterLifecycle(t, n) == t

RECURSIVE TreeBindings(_)
\* The number of delegates made by the routers of the nodes.
TreeBindings(t) == IF t = <<>> THEN 0 ELSE Len(Head(t).router.mocks) + TreeBindings(Tail(t))

RECURSIVE TreeCalls(_)
\* The number of calls made on the routers of the nodes.
TreeCalls(t) == IF t = <<>> THEN 0 ELSE Len(Head(t).router.fnCalls) + TreeCalls(Tail(t))

\* The node has no materialized child.
IsLeaf(node) == \A k \in TreeKeys : node.children[k] = 0

\* const root = mockDeep(opts): the router of index.ts is left alone.
InitTree ==
    /\ fallbackMockImplementation = "none"
    /\ fnImpl = JestFn(fallbackMockImplementation)
    /\ fnCalls = <<>>
    /\ calledWithStack = <<>>
    /\ mocks = <<>>
    /\ installs = 0
    /\ beforeClear = {}
    /\ beforeReset = {}
    /\ lifecycleOps = 0
    /\ last = Op("none", <<>>, Returns(Undefined), 0)
    /\ treeOpts \in [funcPropSupport : BOOLEAN, fallbackMockImplementation : {"none"}]
    /\ tree = <<NewNode(0, "none", treeOpts)>>
    /\ treeLast = TreeOp("none", 0, "none", <<>>, Returns(Undefined), 0)

\* node[key]: the cached child, or a new child cached under the key. A node
\* that was used as a function has properties only with funcPropSupport.
TreeRead(n, key) ==
    /\ n \in 1..Len(tree)
    /\ \/ n = 1
       \/ treeOpts.funcPropSupport
       \/ tree[n].router = NewRouter(treeOpts.fallbackMockImplementation)
    /\ LET child == TreeLookup(tree[n], key)
           id == Len(tree) + 1
       IN IF child # 0
          THEN /\ tree' = tree
               /\ treeLast' = TreeOp("read", n, key, <<>>, Returns(Undefined), child)
          ELSE /\ Len(tree) < MaxNodes
               /\ tree' = Append([tree EXCEPT ![n].children[key] = id],
                                 NewNode(n, key, treeOpts))
               /\ treeLast' = TreeOp("read", n, key, <<>>, Returns(Undefined), id)
    /\ UNCHANGED <<treeOpts, routerVars>>

\* The node n can be used as a function: it is not the root, and it has
\* properties of its own only with funcPropSupport.
IsCallable(n) ==
    /\ n \in 2..Len(tree)
    /\ treeOpts.funcPropSupport \/ IsLeaf(tree[n])

\* node.calledWith(...args) on a node of the tree
TreeCalledWith(n, args) ==
    /\ IsCallable(n)
    /\ TreeBindings(tree) < MaxTreeBindings
    /\ IF validateCalledWithArgs(args)
       THEN /\ tree' = tree
            /\ treeLast' = TreeOp("calledWith", n, "none", args, Throws(UnsupportedMatcher), 0)
       ELSE LET r == RouterCalledWith(tree[n].router, args, treeOpts.fallbackMockImplementation)
            IN /\ tree' = SetRouter(tree, n, r)
               /\ treeLast' = TreeOp("calledWith", n, "none", args, Returns(Undefined),
                                     r.calledWithStack[1].calledWithFn)
    /\ UNCHANGED <<treeOpts, routerVars>>

\* delegate.mockReturnValue(v) on the d-th delegate of the node n
TreeMockReturnValue(n, d, v) ==
    /\ n \in 2..Len(tree)
    /\ d \in DOMAIN tree[n].router.mocks
    /\ tree[n].router.mocks[d].impl # ReturnValueImpl(v)
    /\ tree' = SetRouter(tree, n,
                         [tree[n].router EXCEPT !.mocks[d].impl = ReturnValueImpl(v)])
    /\ treeLast' = TreeOp("mockReturnValue", n, "none", <<>>, Returns(Undefined), d)
    /\ UNCHANGED <<treeOpts, routerVars>>

\* node(...actualArgs) on a node of the tree
TreeInvoke(n, actualArgs) ==
    /\ IsCallable(n)
    /\ TreeCalls(tree) < MaxTreeCalls
    /\ LET res == RouterResult(tree[n].router, actualArgs, treeOpts.fallbackMockImplementation)
       IN /\ tree' = SetRouter(tree, n,
                               RouterInvoke(tree[n].router, actualArgs,
                                            treeOpts.fallbackMockImplementation))
          /\ treeLast' = TreeOp("call", n, "none", actualArgs, res.outcome, res.delegate)
    /\ UNCHANGED <<treeOpts, routerVars>>

\* mockClear(node) on a node of a deep mock: an error, nothing is cleared.
TreeMockClear(n) ==
    /\ n \in 1..Len(tree)
    /\ tree' = TreeAfterLifecycle(tree, n)
    /\ treeLast' = TreeOp("mockClear", n, "none", <<>>, Throws(LifecycleRestrictionError), 0)
    /\ UNCHANGED <<treeOpts, routerVars>>

\* mockReset(node) on a node of a deep mock: an error, nothing is reset.
TreeMockReset(n) ==
    /\ n \in 1..Len(tree)
    /\ tree' = TreeAfterLifecycle(tree, n)
    /\ treeLast' = TreeOp("mockReset", n, "none", <<>>, Throws(LifecycleRestrictionError), 0)
    /\ UNCHANGED <<treeOpts, routerVars>>

ReadTree == \E n \in 1..MaxNodes : \E key \in TreeKeys : TreeRead(n, key)
RegisterTree == \E n \in 1..MaxNodes : \E args \in TreePatterns : TreeCalledWith(n, args)
ConfigureTree ==
    \E n \in 1..MaxNodes : \E d \in 1..MaxTreeBindings :
        TreeMockReturnValue(n, d, TreeReturnValueFor(n))
CallTree == \E n \in 1..MaxNodes : \E actualArgs \in TreeArgLists : TreeInvoke(n, actualArgs)
ClearTree == \E n \in 1..MaxNodes : TreeMockClear(n)
ResetTree == \E n \in 1..MaxNodes : TreeMockReset(n)

NextTree == ReadTree \/ RegisterTree \/ ConfigureTree \/ CallTree \/ ClearTree \/ ResetTree

SpecTree == InitTree /\ [][NextTree]_vars

\* ------------------------------------------------------------------------
\* Properties
\* ------------------------------------------------------------------------
\* A step that is a call of fn with the arguments a.
IsCallOf(a) == fnCalls' = Append(fnCalls, a) /\ last'.op = "call" /\ last'.args = a

\* A step that is a call of fn.calledWith.
IsRegistration == last'.op = "calledWith" /\ last' # last

\* The delegates of the bindings of the stack whose pattern matches a.
MatchingDelegates(a) ==
    {calledWithStack[i].calledWithFn :
        i \in {j \in 1..Len(calledWithStack) : MatchesInstance(calledWithStack[j], a)}}

\* The delegate made last among the delegates ds.
Newest(ds) == CHOOSE d \in ds : \A e \in ds : e <= d

\* The binding at position i of the stack was registered after every other
\* binding of the stack that matches a.
NoNewerMatch(i, a) ==
    \A j \in 1..Len(calledWithStack) :
        (j # i /\ MatchesInstance(calledWithStack[j], a))
            => calledWithStack[j].calledWithFn < calledWithStack[i].calledWithFn

\* What the fallback fb does with the arguments a, written out case by case.
ExpectedFallback(fb, a) ==
    IF fb = "throws" THEN Throws(NotMocked)
    ELSE IF fb = "first" /\ Len(a) > 0 THEN Returns(a[1])
    ELSE Returns(Undefined)

\* C1 (LIFO shadowing): a call of the router whose arguments match one or
\* more registered patterns returns the result configured on the delegate of
\* the most recently registered of those bindings, records the call on that
\* delegate, and calls no delegate of an older matching binding.
LIFOShadowing ==
    [][\A a \in ArgLists :
          (IsCallOf(a) /\ MatchingDelegates(a) # {}) =>
              LET new == Newest(MatchingDelegates(a))
              IN /\ last'.delegate = new
                 /\ last'.outcome = CallMockImpl(mocks[new].impl, fallbackMockImplementation, a)
                 /\ mocks'[new].calls = Append(mocks[new].calls, a)
                 /\ \A d \in MatchingDelegates(a) \ {new} : mocks'[d] = mocks[d]]_vars

\* Two bindings match the call, both delegates are configured, and the call
\* returned the value of the second one without calling the first.
LIFOShadowingWitness ==
    /\ last.op = "call"
    /\ Len(calledWithStack) = 2
    /\ \A i \in 1..2 : MatchesInstance(calledWithStack[i], last.args)
    /\ mocks[1].impl = ReturnValueImpl(ReturnValueFor(1))
    /\ mocks[2].impl = ReturnValueImpl(ReturnValueFor(2))
    /\ last.delegate = 2
    /\ last.outcome = Returns(ReturnValueFor(2))
    /\ mocks[1].calls = <<>>

\* A pattern entry that is a literal primitive.
IsLiteral(e) == e.type # "object"

AllLiterals(pattern) == \A i \in 1..Len(pattern) : IsLiteral(pattern[i])

\* Every entry of the pattern is the very value of the argument at its position.
LiterallyEqual(pattern, a) ==
    \A i \in 1..Len(pattern) :
        /\ i <= Len(a)
        /\ pattern[i].type = a[i].type
        /\ pattern[i].id = a[i].id
        /\ ~(a[i].type = "number" /\ a[i].id = -1)

\* C2 (strict-equality literal matching): a binding whose pattern holds only
\* literals is selected only for calls whose arguments equal the entries
\* position by position, and is selected for every such call unless a binding
\* registered later matches it too; a call that no binding matches falls
\* through to the fallback, or to undefined without a fallback.
StrictLiteralMatching ==
    [][\A a \in ArgLists :
          IsCallOf(a) =>
              /\ \A i \in 1..Len(calledWithStack) :
                    AllLiterals(calledWithStack[i].args) =>
                        /\ (last'.delegate = calledWithStack[i].calledWithFn)
                               => LiterallyEqual(calledWithStack[i].args, a)
                        /\ (LiterallyEqual(calledWithStack[i].args, a) /\ NoNewerMatch(i, a))
                               => last'.delegate = calledWithStack[i].calledWithFn
              /\ ((\A i \in 1..Len(calledWithStack) :
                      /\ AllLiterals(calledWithStack[i].args)
                      /\ ~LiterallyEqual(calledWithStack[i].args, a))
                    => /\ last'.delegate = 0
                       /\ last'.outcome = ExpectedFallback(fallbackMockImplementation, a))]_vars

\* After calledWith(5, "x") alone, the call (5, "x") went to the delegate
\* and the call (5, "y") fell through.
StrictLiteralMatchingWitness ==
    /\ Len(calledWithStack) = 1
    /\ calledWithStack[1].args = <<Num5, StrX>>
    /\ mocks[1].calls = << <<Num5, StrX>> >>
    /\ fnCalls = << <<Num5, StrX>>, <<Num5, StrY>> >>
    /\ last.op = "call"
    /\ last.delegate = 0

\* Every entry of the pattern is one of the library's Matchers.
AllMatchers(pattern) ==
    \A i \in 1..Len(pattern) : pattern[i].type = "object" /\ pattern[i].matcher

\* The predicate of every Matcher of the pattern holds of the argument at its position.
PredicatesHold(pattern, a) ==
    \A i \in 1..Len(pattern) : asymmetricMatch(pattern[i].asym, ArgAt(a, i - 1))

\* C3 (Matcher matching): a binding whose pattern holds only Matchers is
\* selected only for calls on whose arguments every predicate returns true,
\* and for every such call unless a binding registered later matches it too;
\* the 'is a number' Matcher at position 0 never takes a call whose first
\* argument is a string.
MatcherMatching ==
    [][\A a \in ArgLists :
          IsCallOf(a) =>
              \A i \in 1..Len(calledWithStack) :
                  AllMatchers(calledWithStack[i].args) =>
                      /\ (last'.delegate = calledWithStack[i].calledWithFn)
                             => PredicatesHold(calledWithStack[i].args, a)
                      /\ (PredicatesHold(calledWithStack[i].args, a) /\ NoNewerMatch(i, a))
                             => last'.delegate = calledWithStack[i].calledWithFn
                      /\ (calledWithStack[i].args = <<IsNumberMatcher>> /\ Len(a) > 0
                          /\ a[1].type = "string")
                             => last'.delegate # calledWithStack[i].calledWithFn]_vars

\* The 'is a number' binding took the call (7, "x", 5), and the call ("x", 5)
\* after it went elsewhere.
MatcherMatchingWitness ==
    /\ Len(calledWithStack) = 1
    /\ calledWithStack[1].args = <<IsNumberMatcher>>
    /\ mocks[1].calls = << <<Num7, StrX, Num5>> >>
    /\ last.op = "call"
    /\ last.args = <<StrX, Num5>>
    /\ last.delegate = 0

\* C4 (fallback invocation): a call that no binding matches, also on a router
\* without bindings, calls no delegate and has the outcome of the fallback
\* applied to the actual arguments, its return value or its exception, and
\* returns undefined when there is no fallback.
FallbackInvocation ==
    [][\A a \in ArgLists :
          (IsCallOf(a) /\ MatchingDelegates(a) = {}) =>
              /\ last'.delegate = 0
              /\ last'.outcome = ExpectedFallback(fallbackMockImplementation, a)
              /\ mocks' = mocks]_vars

\* A router with a binding and a throwing fallback was called with arguments
\* the binding does not match, and the call threw the fallback's error.
FallbackInvocationWitness ==
    /\ fallbackMockImplementation = "throws"
    /\ Len(calledWithStack) = 1
    /\ last.op = "call"
    /\ ~MatchesInstance(calledWithStack[1], last.args)
    /\ last.delegate = 0
    /\ last.outcome = Throws(NotMocked)

\* The pattern holds an object whose prototype tag begins with "Expect".
HasForeignMatcher(pattern) ==
    \E i \in 1..Len(pattern) :
        /\ pattern[i].type = "object"
        /\ Len(pattern[i].tag) >= 6
        /\ \A k \in 1..6 : pattern[i].tag[k] = TagExpect[k]

\* C5 (rejection of foreign matchers): calledWith with a pattern that holds a
\* Bun built-in matcher at any position throws and changes nothing: the
\* stack, the installed implementation, the delegates and the histories are
\* as before.
RejectionOfForeignMatchers ==
    [][\A p \in Patterns :
          (IsRegistration /\ last'.args = p /\ HasForeignMatcher(p)) =>
              /\ last'.outcome = Throws(UnsupportedMatcher)
              /\ last'.delegate = 0
              /\ UNCHANGED <<calledWithStack, fnImpl, installs, mocks, fnCalls>>]_vars

\* calledWith(5, expect.any(Number)) threw on a router that holds one binding.
RejectionOfForeignMatchersWitness ==
    /\ last.op = "calledWith"
    /\ last.args = <<Num5, BunAny>>
    /\ last.outcome.kind = "throw"
    /\ Len(calledWithStack) = 1
    /\ Len(mocks) = 1

\* C6 (single dispatcher): the dispatcher is installed at most once, and once
\* it is the installed implementation no step installs it again or replaces it.
SingleDispatcher ==
    [][/\ installs' <= 1
       /\ (fnImpl.kind = "dispatcher") => (installs' = installs /\ fnImpl' = fnImpl)]_vars

\* A second registration was made after calls went through the dispatcher.
SingleDispatcherWitness ==
    /\ installs = 1
    /\ fnImpl.kind = "dispatcher"
    /\ Len(calledWithStack) = 2
    /\ Len(fnCalls) >= 1
    /\ last.op = "calledWith"
    /\ last.delegate = 2

\* C7 (independent delegate state): a successful calledWith returns a delegate
\* that did not exist before, is not the router, and starts unconfigured with
\* an empty history; configuring one delegate leaves the routing, every other
\* delegate and the result of every call routed to another delegate as they
\* were; a delegate's history grows by exactly the calls routed to it.
IndependentDelegateState ==
    [][/\ (IsRegistration /\ last'.outcome.kind = "return") =>
              /\ last'.delegate # 0
              /\ last'.delegate \notin DOMAIN mocks
              /\ last'.delegate \in DOMAIN mocks'
              /\ mocks'[last'.delegate] = NewMock(JestFn(fallbackMockImplementation))
              /\ \A d \in DOMAIN mocks : mocks'[d] = mocks[d]
       /\ \A d \in DOMAIN mocks :
              (d \in DOMAIN mocks' /\ mocks'[d].impl # mocks[d].impl) =>
                  /\ \A e \in DOMAIN mocks \ {d} : mocks'[e] = mocks[e]
                  /\ UNCHANGED <<calledWithStack, fnImpl, fallbackMockImplementation>>
                  /\ \A a \in ArgLists :
                        LET i == FindInstance(calledWithStack, a)
                            e == calledWithStack[i].calledWithFn
                        IN (i # 0 /\ e # d) =>
                              CallMockImpl(mocks'[e].impl, fallbackMockImplementation, a)
                              = CallMockImpl(mocks[e].impl, fallbackMockImplementation, a)
       /\ (Len(fnCalls') = Len(fnCalls) + 1) =>
              \A d \in DOMAIN mocks :
                  mocks'[d].calls = IF d = last'.delegate
                                    THEN Append(mocks[d].calls, fnCalls'[Len(fnCalls')])
                                    ELSE mocks[d].calls
       /\ (fnCalls' = fnCalls) =>
              \A d \in DOMAIN mocks : d \in DOMAIN mocks' /\ mocks'[d].calls = mocks[d].calls]_vars

\* Two delegates, the first configured and the second not, each with a
\* history of its own.
IndependentDelegateStateWitness ==
    /\ Len(mocks) = 2
    /\ mocks[1].impl = ReturnValueImpl(ReturnValueFor(1))
    /\ mocks[2].impl = JestFn(fallbackMockImplementation)
    /\ mocks[1].calls # <<>>
    /\ mocks[2].calls # <<>>
    /\ mocks[1].calls # mocks[2].calls

RECURSIVE SumCalls(_)
\* The sum of the call counts of the delegates ms.
SumCalls(ms) == IF ms = <<>> THEN 0 ELSE Len(Head(ms).calls) + SumCalls(Tail(ms))

\* C8 (aggregate call history): every call of the router appends its actual
\* arguments once to the router's history, matched or not; a delegate's
\* history grows only with such a call and by the same arguments; one call
\* changes at most one delegate; the router's call count is at least the sum
\* of the delegates' call counts.
AggregateCallHistory ==
    [][/\ (last'.op = "call" /\ last' # last) => fnCalls' = Append(fnCalls, last'.args)
       /\ (fnCalls' # fnCalls) =>
              /\ \E a \in ArgLists : fnCalls' = Append(fnCalls, a)
              /\ Cardinality({d \in DOMAIN mocks : mocks'[d] # mocks[d]}) <= 1
       /\ \A d \in DOMAIN mocks :
              \/ mocks'[d].calls = mocks[d].calls
              \/ \E a \in ArgLists :
                    /\ fnCalls' = Append(fnCalls, a)
                    /\ mocks'[d].calls = Append(mocks[d].calls, a)
       /\ Len(fnCalls') >= SumCalls(mocks')]_vars

\* Two calls were made on a router with two bindings: one went to a delegate,
\* the other matched nothing, and both are in the router's history.
AggregateCallHistoryWitness ==
    /\ Len(mocks) = 2
    /\ Len(fnCalls) = 2
    /\ SumCalls(mocks) = 1
    /\ last.op = "call"
    /\ last.delegate = 0

\* The first n arguments of a.
FirstArgs(a, n) == SubSeq(a, 1, n)

\* C9 (positional patterns with ignored tails): for a call with more
\* arguments than a binding's pattern has entries, the binding is selected
\* exactly when its pattern matches the leading arguments (and no binding
\* registered later matches), whatever the extra arguments are, and the
\* selected delegate is called with all the arguments.
IgnoredTails ==
    [][\A a \in ArgLists :
          IsCallOf(a) =>
              \A i \in 1..Len(calledWithStack) :
                  LET item == calledWithStack[i]
                  IN Len(a) > Len(item.args) =>
                        /\ (last'.delegate = item.calledWithFn)
                               => /\ MatchesInstance(item, FirstArgs(a, Len(item.args)))
                                  /\ mocks'[item.calledWithFn].calls =
                                         Append(mocks[item.calledWithFn].calls, a)
                                  /\ last'.outcome =
                                         CallMockImpl(mocks[item.calledWithFn].impl,
                                                      fallbackMockImplementation, a)
                        /\ (MatchesInstance(item, FirstArgs(a, Len(item.args)))
                            /\ NoNewerMatch(i, a))
                               => last'.delegate = item.calledWithFn]_vars

\* The one-entry 'is a number' binding took the call (7, "x", 5); its
\* delegate got the three arguments and, unconfigured, returned the first.
IgnoredTailsWitness ==
    /\ fallbackMockImplementation = "first"
    /\ Len(calledWithStack) = 1
    /\ calledWithStack[1].args = <<IsNumberMatcher>>
    /\ last.op = "call"
    /\ last.args = <<Num7, StrX, Num5>>
    /\ last.delegate = 1
    /\ mocks[1].calls = << <<Num7, StrX, Num5>> >>
    /\ last.outcome = Returns(Num7)

NoMergeNoDedupe ==
    [][/\ (IsRegistration /\ last'.outcome.kind = "return") =>
              calledWithStack' =
                  <<[args |-> last'.args, calledWithFn |-> last'.delegate]>> \o calledWithStack
       /\ Len(calledWithStack') = Len(mocks')
       /\ \A i \in 1..Len(calledWithStack') :
              calledWithStack'[i].calledWithFn = Len(mocks') - i + 1]_vars

\* The same pattern was registered twice and the stack holds both bindings,
\* the second in front.
NoMergeNoDedupeWitness ==
    /\ Len(calledWithStack) = 2
    /\ calledWithStack[1].args = calledWithStack[2].args
    /\ calledWithStack[1].calledWithFn = 2
    /\ calledWithStack[2].calledWithFn = 1
    /\ last.op = "calledWith"
    /\ last.delegate = 2

\* C16 (invocation leaves routing state unchanged): a call of the router,
\* matched or not and whatever its outcome, leaves the stack, the installed
\* implementation and every delegate's configuration as they were and changes
\* only the router's history and the history of the delegate that was called;
\* the stack changes only in a successful calledWith.
InvocationLeavesRouting ==
    [][/\ (Len(fnCalls') = Len(fnCalls) + 1) =>
              /\ UNCHANGED <<calledWithStack, fnImpl, installs, fallbackMockImplementation>>
              /\ DOMAIN mocks' = DOMAIN mocks
              /\ \A d \in DOMAIN mocks :
                    /\ mocks'[d].impl = mocks[d].impl
                    /\ (d # last'.delegate) => mocks'[d] = mocks[d]
       /\ (calledWithStack' # calledWithStack) =>
              (IsRegistration /\ last'.outcome.kind = "return")]_vars

\* A call on a router with two bindings matched neither of them and threw the
\* fallback's error.
InvocationLeavesRoutingWitness ==
    /\ Len(calledWithStack) = 2
    /\ fnImpl.kind = "dispatcher"
    /\ last.op = "call"
    /\ last.delegate = 0
    /\ last.outcome = Throws(NotMocked)
    /\ Len(fnCalls) = 2
    /\ mocks[2].calls # <<>>

\* C14 as stated (dispatcher installed on first registration): right after a
\* successful calledWith the installed implementation of the router is the
\* dispatcher, whatever was installed before, and a call whose arguments
\* match a binding of the stack reaches a delegate.
DispatcherAfterRegistration ==
    /\ (last.op = "calledWith" /\ last.outcome.kind = "return") => fnImpl.kind = "dispatcher"
    /\ (last.op = "call" /\ MatchingDelegates(last.args) # {}) => last.delegate # 0

\* C17 (a registration on an absent or fallback implementation starts the
\* stack anew): a successful calledWith made while the installed
\* implementation is absent or is the fallback installs the dispatcher and
\* leaves exactly the new binding on the stack; made on any other
\* implementation it installs nothing and puts the new binding in front of
\* the bindings that were there.
RegistrationRestartsStack ==
    [][(IsRegistration /\ last'.outcome.kind = "return") =>
          LET new == [args |-> last'.args, calledWithFn |-> last'.delegate]
          IN IF fnImpl.kind \in {"none", "fallback"}
             THEN /\ fnImpl' = DispatcherImpl
                  /\ installs' = installs + 1
                  /\ calledWithStack' = <<new>>
             ELSE /\ fnImpl' = fnImpl
                  /\ installs' = installs
                  /\ calledWithStack' = <<new>> \o calledWithStack]_vars

\* A registration after a mockReset installed the dispatcher a second time
\* and left its own binding alone on the stack.
RegistrationRestartsStackWitness ==
    /\ beforeReset = {1}
    /\ installs = 2
    /\ fnImpl.kind = "dispatcher"
    /\ last.op = "calledWith"
    /\ last.delegate = 2
    /\ Len(calledWithStack) = 1
    /\ calledWithStack[1].calledWithFn = 2

\* C18 (a delegate starts with the fallback as its implementation): a call
\* whose newest matching binding has a delegate that was never configured
\* goes to that delegate and has the outcome of the fallback on the call's
\* arguments (undefined without a fallback), also when an older matching
\* binding has a configured delegate.
UnconfiguredDelegateIsFallback ==
    [][\A a \in ArgLists :
          (/\ IsCallOf(a)
           /\ MatchingDelegates(a) # {}
           /\ mocks[Newest(MatchingDelegates(a))].impl.kind # "returnValue") =>
              /\ last'.delegate = Newest(MatchingDelegates(a))
              /\ last'.outcome = ExpectedFallback(fallbackMockImplementation, a)]_vars

\* Two bindings match the call, the older delegate is configured, the newer
\* one is not, and the call returned what the fallback returns.
UnconfiguredDelegateIsFallbackWitness ==
    /\ fallbackMockImplementation = "first"
    /\ Len(calledWithStack) = 2
    /\ last.op = "call"
    /\ MatchesInstance(calledWithStack[1], last.args)
    /\ MatchesInstance(calledWithStack[2], last.args)
    /\ mocks[calledWithStack[2].calledWithFn].impl.kind = "returnValue"
    /\ mocks[calledWithStack[1].calledWithFn].impl.kind = "fallback"
    /\ last.delegate = calledWithStack[1].calledWithFn
    /\ last.outcome = Returns(last.args[1])

\* C19 (an empty pattern matches every call): while the dispatcher is
\* installed and a binding with an empty pattern is on the stack, every call
\* goes to a delegate, never to the fallback; it goes to the delegate of the
\* empty pattern or of a binding registered after it, no delegate of a
\* binding registered before it is touched, and when the empty pattern is the
\* newest binding the call goes to its delegate.
EmptyPatternMatchesAll ==
    [][\A a \in EdgeArgLists :
          \A i \in 1..Len(calledWithStack) :
              (/\ IsCallOf(a)
               /\ fnImpl.kind = "dispatcher"
               /\ calledWithStack[i].args = <<>>) =>
                  /\ last'.delegate # 0
                  /\ last'.delegate >= calledWithStack[i].calledWithFn
                  /\ \A j \in (i + 1)..Len(calledWithStack) :
                         mocks'[calledWithStack[j].calledWithFn] =
                             mocks[calledWithStack[j].calledWithFn]
                  /\ (i = 1) => last'.delegate = calledWithStack[1].calledWithFn]_vars

\* An empty pattern registered after a binding that matches the call took
\* the call of a router with a throwing fallback and returned its delegate's
\* configured value.
EmptyPatternMatchesAllWitness ==
    /\ fallbackMockImplementation = "throws"
    /\ fnImpl.kind = "dispatcher"
    /\ Len(calledWithStack) = 2
    /\ calledWithStack[1].args = <<>>
    /\ last.op = "call"
    /\ last.args = <<Num5, StrX>>
    /\ calledWithStack[2].args = <<Num5, StrX>>
    /\ last.delegate = calledWithStack[1].calledWithFn
    /\ last.outcome = Returns(ReturnValueFor(last.delegate))
    /\ mocks[calledWithStack[2].calledWithFn].calls = <<>>

\* A pattern entry accepts the value v: a Matcher by its predicate, a literal
\* by being the same value.
EntryAccepts(entry, v) ==
    IF entry.type = "object" THEN asymmetricMatch(entry.asym, v) ELSE entry = v

\* C20 (a pattern longer than the arguments): a call with fewer arguments
\* than the newest binding's pattern has entries goes to that binding's
\* delegate exactly when every entry accepts its argument, with undefined
\* standing for each missing argument.
MissingArgumentsAreUndefined ==
    [][\A a \in EdgeArgLists :
          (/\ IsCallOf(a)
           /\ fnImpl.kind = "dispatcher"
           /\ calledWithStack # <<>>
           /\ Len(calledWithStack[1].args) > Len(a)) =>
              LET pattern == calledWithStack[1].args
                  padded == [k \in 1..Len(pattern) |->
                                IF k <= Len(a) THEN a[k] ELSE Undefined]
              IN (last'.delegate = calledWithStack[1].calledWithFn)
                     <=> \A k \in 1..Len(pattern) : EntryAccepts(pattern[k], padded[k])]_vars

\* A one-argument call went past a newer two-entry pattern whose second
\* entry is a string and reached an older one whose second entry is a
\* Matcher that accepts undefined.
MissingArgumentsAreUndefinedWitness ==
    /\ fnImpl.kind = "dispatcher"
    /\ Len(calledWithStack) = 2
    /\ calledWithStack[1].args = <<Num5, StrX>>
    /\ calledWithStack[2].args = <<Num5, IsUndefinedMatcher>>
    /\ last.op = "call"
    /\ last.args = <<Num5>>
    /\ last.delegate = calledWithStack[2].calledWithFn

\* C11 (identity stability): a read of a key that was read before on the same
\* node returns the node the earlier read returned and makes no node; no
\* step, be it a read, a registration, a configuration, a call or a failed
\* clear or reset, replaces a cached child; and no two nodes were made for
\* the same key of the same node.
IdentityStability ==
    [][/\ \A n \in 1..Len(tree) : \A k \in TreeKeys :
              tree[n].children[k] # 0 => tree'[n].children[k] = tree[n].children[k]
       /\ treeLast'.op = "read" =>
              LET n == treeLast'.node
                  k == treeLast'.key
              IN /\ tree'[n].children[k] = treeLast'.result
                 /\ tree[n].children[k] # 0 =>
                        /\ treeLast'.result = tree[n].children[k]
                        /\ tree' = tree
       /\ \A m1, m2 \in 2..Len(tree') :
              (tree'[m1].parent = tree'[m2].parent /\ tree'[m1].key = tree'[m2].key)
                  => m1 = m2]_vars

\* root.a was read again after a registration on it and after root.a.a was
\* materialized, and the read returned the node of the first read.
IdentityStabilityWitness ==
    /\ Len(tree) = 3
    /\ tree[1].children["a"] = 2
    /\ tree[2].children["a"] = 3
    /\ tree[2].router.calledWithStack # <<>>
    /\ treeLast.op = "read"
    /\ treeLast.node = 1
    /\ treeLast.key = "a"
    /\ treeLast.result = 2

\* C12 (deep tree independence): in a tree with funcPropSupport, a
\* registration, a configuration or a call on one node leaves every other
\* node as it was, its binding stack included, and a call that the newest
\* binding of the node matches returns the value configured on that
\* binding's delegate: 3 on root.a and 4 on the child read off it.
DeepTreeIndependence ==
    [][(/\ treeOpts.funcPropSupport
        /\ treeLast'.op \in {"calledWith", "mockReturnValue", "call"}) =>
           LET n == treeLast'.node
               r == tree[n].router
           IN /\ \A m \in 1..Len(tree) : m # n => tree'[m] = tree[m]
              /\ (/\ treeLast'.op = "call"
                  /\ r.calledWithStack # <<>>
                  /\ r.calledWithStack[1].args = treeLast'.args
                  /\ r.mocks[r.calledWithStack[1].calledWithFn].impl.kind = "returnValue") =>
                     /\ treeLast'.outcome = Returns(Prim("number", n + 1))
                     /\ treeLast'.result = r.calledWithStack[1].calledWithFn]_vars

\* With funcPropSupport, root.a and the child read off it each have the
\* pattern (1); root.a was called with 1 and its delegate is configured to
\* return 3, and the call of the child with 1 returned 4.
DeepTreeIndependenceWitness ==
    /\ treeOpts.funcPropSupport
    /\ Len(tree) = 3
    /\ tree[1].children["a"] = 2
    /\ tree[2].children["a"] = 3
    /\ tree[2].router.calledWithStack = <<[args |-> <<Num1>>, calledWithFn |-> 1]>>
    /\ tree[2].router.mocks[1].impl = ReturnValueImpl(Num3)
    /\ tree[2].router.mocks[1].calls = << <<Num1>> >>
    /\ tree[3].router.calledWithStack = <<[args |-> <<Num1>>, calledWithFn |-> 1]>>
    /\ treeLast.op = "call"
    /\ treeLast.node = 3
    /\ treeLast.args = <<Num1>>
    /\ treeLast.outcome = Returns(Num4)

\* C13 (lifecycle restriction): mockClear or mockReset on a node of a deep
\* tree ends with the lifecycle restriction error, and the tree, with every
\* cached child and every binding, is what it was before the call.
LifecycleRestriction ==
    [][treeLast'.op \in {"mockClear", "mockReset"} =>
           /\ treeLast'.outcome = Throws(LifecycleRestrictionError)
           /\ tree' = tree]_vars

\* mockReset on the root of a tree whose child has a binding threw, and the
\* child still has the binding.
LifecycleRestrictionWitness ==
    /\ Len(tree) >= 2
    /\ tree[1].children["a"] = 2
    /\ tree[2].router.calledWithStack # <<>>
    /\ treeLast.op = "mockReset"
    /\ treeLast.node = 1
    /\ treeLast.outcome = Throws(LifecycleRestrictionError)

\* The entry is an object with an asymmetricMatch function that is not one
\* of the library's Matchers.
IsShapeMatcher(entry) == entry.type = "object" /\ ~entry.matcher /\ entry.asym # "none"

\* C21 (asymmetric matchers by shape): calledWith throws exactly for the
\* patterns that hold an object whose prototype tag begins with "Expect", so
\* a pattern whose objects have an asymmetricMatch function and another tag
\* is registered; and a call goes to the newest binding exactly when every
\* entry accepts its argument, an object with an asymmetricMatch function by
\* the result of that function on the argument: the call that passes the
\* object itself, which is strictly equal to the entry, is not taken.
ShapeMatcherAccepted ==
    [][/\ \A p \in DuckPatterns :
              (IsRegistration /\ last'.args = p) =>
                  /\ (last'.outcome.kind = "throw") <=> HasForeignMatcher(p)
                  /\ ~HasForeignMatcher(p) =>
                         calledWithStack'[1] = [args |-> p, calledWithFn |-> last'.delegate]
       /\ \A a \in DuckArgLists :
              (IsCallOf(a) /\ calledWithStack # <<>>) =>
                  LET pattern == calledWithStack[1].args
                  IN /\ (last'.delegate = calledWithStack[1].calledWithFn)
                            <=> \A k \in 1..Len(pattern) :
                                    EntryAccepts(pattern[k], ArgAt(a, k - 1))
                     /\ (\E k \in 1..Len(pattern) :
                             IsShapeMatcher(pattern[k]) /\ ArgAt(a, k - 1) = pattern[k])
                            => last'.delegate # calledWithStack[1].calledWithFn]_vars

\* The binding whose pattern is the object with an asymmetricMatch function
\* for strings took the call ("x"), and the call that passed the object
\* itself after it went to no delegate.
ShapeMatcherAcceptedWitness ==
    /\ Len(calledWithStack) = 1
    /\ calledWithStack[1].args = <<DuckMatcher>>
    /\ IsShapeMatcher(DuckMatcher)
    /\ ~HasForeignMatcher(<<DuckMatcher>>)
    /\ mocks[1].calls = << <<StrX>> >>
    /\ last.op = "call"
    /\ last.args = <<DuckMatcher>>
    /\ last.delegate = 0

====
